---- MODULE Spec2Model ----
(***************************************************************************)
(* Model of the Quantum-Safe Digital Time Capsule (quantum_time_capsule).  *)
(*                                                                         *)
(* Text (Python str) is a sequence of one-character strings; bytes are     *)
(* sequences of naturals.  str.encode / bytes.decode map between them by   *)
(* ASCII code.  base64 is a radix-64 positional code over the standard or  *)
(* the URL-safe alphabet; the 3-byte/4-character grouping of the real      *)
(* codec is scaled to 1 byte / 2 characters.  Public-key operations are    *)
(* symbolic: a ciphertext, token or signature carries the identity of the  *)
(* key that made it, and the matching operation succeeds only under the    *)
(* matching key.                                                           *)
(***************************************************************************)
EXTENDS Integers, Sequences, FiniteSets, TLC

(***************************************************************************)
(* Bounds of the model.                                                    *)
(***************************************************************************)
\* scaled length of the random symmetric key (os.urandom(32))
KeyLen == 1
\* number of changes of the stored state in one behaviour: key generations,
\* capsule creations and outside modifications of a capsule file
MaxChanges == 3

(***************************************************************************)
(* Exceptions and results of the pure functions.                           *)
(***************************************************************************)
Ok(x) == [ok |-> TRUE, v |-> x, exc |-> "none"]
Raise(e) == [ok |-> FALSE, v |-> <<>>, exc |-> e]

(***************************************************************************)
(* Characters, str.encode() and bytes.decode().                            *)
(***************************************************************************)
Ascii ==
  << " ", "!", "dquote", "#", "$", "%", "&", "'", "(", ")", "*", "+", ",", "-", ".", "/",
     "0", "1", "2", "3", "4", "5", "6", "7", "8", "9", ":", ";", "<", "=", ">", "?",
     "@", "A", "B", "C", "D", "E", "F", "G", "H", "I", "J", "K", "L", "M", "N", "O",
     "P", "Q", "R", "S", "T", "U", "V", "W", "X", "Y", "Z", "[", "bslash", "]", "^", "_",
     "btick", "a", "b", "c", "d", "e", "f", "g", "h", "i", "j", "k", "l", "m", "n", "o",
     "p", "q", "r", "s", "t", "u", "v", "w", "x", "y", "z", "{", "|", "}", "~" >>

\* (the double quote, the backslash and the backtick are written by name)
Chars == {Ascii[i] : i \in 1..Len(Ascii)}

Ord == [c \in Chars |-> 31 + (CHOOSE i \in 1..Len(Ascii) : Ascii[i] = c)]

Chr(n) == Ascii[n - 31]

\* str.encode(): the bytes of a text
Encode(text) == [i \in 1..Len(text) |-> Ord[text[i]]]

\* bytes.decode(): the text of a byte string, UnicodeDecodeError when a byte is no character
Decode(bytes) ==
  IF \A i \in 1..Len(bytes) : bytes[i] \in 32..126
  THEN Ok([i \in 1..Len(bytes) |-> Chr(bytes[i])])
  ELSE Raise("UnicodeDecodeError")

\* bytes.decode() of bytes known to be ASCII (the output of a base64 encoder)
DecodeAscii(bytes) == [i \in 1..Len(bytes) |-> Chr(bytes[i])]

(***************************************************************************)
(* JSON values as Python sees them: a str or None.                         *)
(***************************************************************************)
JStr(text) == [t |-> "str", v |-> text]
JNull == [t |-> "null", v |-> <<>>]

\* Python truthiness: `not x`
Falsy(x) == x.t = "null" \/ x.v = <<>>

\* f"{x}" of a JSON value
Format(x) == IF x.t = "str" THEN x.v ELSE <<"N", "o", "n", "e">>

(***************************************************************************)
(* base64                                                                  *)
(***************************************************************************)
B64Std ==
  << "A", "B", "C", "D", "E", "F", "G", "H", "I", "J", "K", "L", "M", "N", "O", "P",
     "Q", "R", "S", "T", "U", "V", "W", "X", "Y", "Z", "a", "b", "c", "d", "e", "f",
     "g", "h", "i", "j", "k", "l", "m", "n", "o", "p", "q", "r", "s", "t", "u", "v",
     "w", "x", "y", "z", "0", "1", "2", "3", "4", "5", "6", "7", "8", "9", "+", "/" >>

B64Url == [i \in 1..64 |-> IF i = 63 THEN "-" ELSE IF i = 64 THEN "_" ELSE B64Std[i]]

StdCodes == {Ord[B64Std[i]] : i \in 1..64}

\* value of a character of the standard alphabet, by its code
B64Value == [b \in StdCodes |-> (CHOOSE i \in 1..64 : Ord[B64Std[i]] = b) - 1]

B64EncodeWith(alphabet, bytes) ==
  [i \in 1..(2 * Len(bytes)) |->
     IF i % 2 = 1 THEN Ord[alphabet[(bytes[(i + 1) \div 2] \div 64) + 1]]
                  ELSE Ord[alphabet[(bytes[i \div 2] % 64) + 1]]]

\* base64.b64encode(bytes) -> bytes
b64encode(bytes) == B64EncodeWith(B64Std, bytes)

\* base64.urlsafe_b64encode(bytes) -> bytes
urlsafe_b64encode(bytes) == B64EncodeWith(B64Url, bytes)

IsStdCode(b) == b \in StdCodes

\* base64.b64decode(bytes), validate=False: characters outside the alphabet
\* are discarded, an incomplete group raises binascii.Error
b64decode(bytes) ==
  LET kept == SelectSeq(bytes, IsStdCode)
  IN  IF Len(kept) % 2 # 0
      THEN Raise("binascii.Error")
      ELSE Ok([i \in 1..(Len(kept) \div 2) |->
                 64 * B64Value[kept[2 * i - 1]] + B64Value[kept[2 * i]]])

\* base64.urlsafe_b64decode(bytes): '-' and '_' are translated to '+' and '/',
\* then the standard decoder runs
urlsafe_b64decode(bytes) ==
  b64decode([i \in 1..Len(bytes) |->
               IF bytes[i] = Ord["-"] THEN Ord["+"]
               ELSE IF bytes[i] = Ord["_"] THEN Ord["/"]
               ELSE bytes[i]])

\* a decoder applied to a JSON value: str is converted to ASCII bytes, None is a TypeError
b64decodeJ(x) == IF x.t = "str" THEN b64decode(Encode(x.v)) ELSE Raise("TypeError")
urlsafe_b64decodeJ(x) == IF x.t = "str" THEN urlsafe_b64decode(Encode(x.v)) ELSE Raise("TypeError")

(***************************************************************************)
(* Calendar dates, the clock and the timestamp format (utils.py).          *)
(***************************************************************************)
IsDigit(c) == c \in {"0", "1", "2", "3", "4", "5", "6", "7", "8", "9"}

\* the number written by the digits text[i..j]
RECURSIVE Number(_, _, _)
Number(text, i, j) ==
  IF j < i THEN 0 ELSE 10 * Number(text, i, j - 1) + (Ord[text[j]] - Ord["0"])

\* n written with w digits, zero padded ("%0wd")
RECURSIVE Digits(_, _)
Digits(n, w) == IF w = 0 THEN <<>> ELSE Digits(n \div 10, w - 1) \o <<Chr(Ord["0"] + (n % 10))>>

IsLeap(y) == (y % 4 = 0 /\ y % 100 # 0) \/ y % 400 = 0

DaysInMonth(y, m) ==
  IF m = 2 THEN (IF IsLeap(y) THEN 29 ELSE 28)
  ELSE IF m \in {4, 6, 9, 11} THEN 30 ELSE 31

\* datetime.date.fromisoformat(x) for the format YYYY-MM-DD: TypeError when x
\* is not a str, ValueError when the text is not a calendar date
fromisoformat(x) ==
  IF x.t # "str" THEN Raise("TypeError")
  ELSE LET s == x.v
       IN IF /\ Len(s) = 10
             /\ s[5] = "-" /\ s[8] = "-"
             /\ \A i \in {1, 2, 3, 4, 6, 7, 9, 10} : IsDigit(s[i])
          THEN LET y == Number(s, 1, 4)
                   m == Number(s, 6, 7)
                   d == Number(s, 9, 10)
               IN IF y >= 1 /\ m \in 1..12 /\ d >= 1 /\ d <= DaysInMonth(y, m)
                  THEN Ok([y |-> y, m |-> m, d |-> d])
                  ELSE Raise("ValueError")
          ELSE Raise("ValueError")

\* date.__ge__
DateGe(a, b) == a.y * 10000 + a.m * 100 + a.d >= b.y * 10000 + b.m * 100 + b.d

\* is_unlocked comparing with > where the code has >=
is_unlocked_after(unlock_date_str, today) ==
  LET parsed == fromisoformat(unlock_date_str)
  IN IF parsed.ok THEN Ok(DateGe(today, parsed.v) /\ today # parsed.v)
     ELSE IF parsed.exc = "ValueError" THEN Ok(FALSE)
     ELSE Raise(parsed.exc)

\* is_unlocked(unlock_date_str) when datetime.date.today() is `today`: only
\* ValueError is caught
is_unlocked(unlock_date_str, today) ==
  LET parsed == fromisoformat(unlock_date_str)
  IN IF parsed.ok THEN Ok(DateGe(today, parsed.v))
     ELSE IF parsed.exc = "ValueError" THEN Ok(FALSE)
     ELSE Raise(parsed.exc)

\* validate_date(date_str): only ValueError is caught
validate_date(date_str) ==
  LET parsed == fromisoformat(date_str)
  IN IF parsed.ok THEN Ok(TRUE)
     ELSE IF parsed.exc = "ValueError" THEN Ok(FALSE)
     ELSE Raise(parsed.exc)

\* the readings datetime.datetime.now() can give, in the order of time
Instants ==
  << [y |-> 2024, m |-> 12, d |-> 31, hh |-> 23, mm |-> 59, ss |-> 59, us |-> 999999],
     [y |-> 2025, m |-> 1, d |-> 1, hh |-> 0, mm |-> 0, ss |-> 0, us |-> 0],
     [y |-> 2025, m |-> 1, d |-> 1, hh |-> 0, mm |-> 0, ss |-> 0, us |-> 1] >>

\* datetime.date.today() at a reading
DateOf(dt) == [y |-> dt.y, m |-> dt.m, d |-> dt.d]

\* date.isoformat()
DateText(date) == Digits(date.y, 4) \o <<"-">> \o Digits(date.m, 2) \o <<"-">> \o Digits(date.d, 2)

\* datetime.isoformat(): the microseconds are written only when they are not zero
isoformat(dt) ==
  DateText(DateOf(dt)) \o <<"T">> \o Digits(dt.hh, 2) \o <<":">> \o Digits(dt.mm, 2)
     \o <<":">> \o Digits(dt.ss, 2)
     \o (IF dt.us = 0 THEN <<>> ELSE <<".">> \o Digits(dt.us, 6))

\* str.replace(old, new) for single characters
Replace(text, old, new) == [i \in 1..Len(text) |-> IF text[i] = old THEN new ELSE text[i]]

\* get_current_timestamp replacing ':' by the delimiter of the signed string
get_current_timestamp_bar(dt) == Replace(isoformat(dt), ":", "|")

\* get_current_timestamp() at a reading of the clock
get_current_timestamp(dt) == Replace(isoformat(dt), ":", "-")

(***************************************************************************)
(* Asymmetric keys (pqc_module.py).  A key is serialised as the text       *)
(* <algorithm><role><identity>: R/E for RSA/EC, P/S for public/secret.     *)
(***************************************************************************)
PemBytes(alg, role, n) == Encode(<<alg, role>> \o Digits(n, 2))

\* generate_keys(); n is the identity of the fresh key pairs
generate_keys(n) ==
  [kem_public |-> DecodeAscii(b64encode(PemBytes("R", "P", n))),
   kem_secret |-> DecodeAscii(b64encode(PemBytes("R", "S", n))),
   sig_public |-> DecodeAscii(b64encode(PemBytes("E", "P", n))),
   sig_secret |-> DecodeAscii(b64encode(PemBytes("E", "S", n)))]

\* serialization.load_pem_public_key / load_pem_private_key
LoadPem(bytes, role) ==
  IF /\ Len(bytes) = 4
     /\ bytes[1] \in {Ord["R"], Ord["E"]}
     /\ bytes[2] = Ord[role]
     /\ bytes[3] \in 48..57 /\ bytes[4] \in 48..57
  THEN Ok([alg |-> Chr(bytes[1]), id |-> 10 * (bytes[3] - 48) + (bytes[4] - 48)])
  ELSE Raise("ValueError")

load_pem_public_key(bytes) == LoadPem(bytes, "P")
load_pem_private_key(bytes) == LoadPem(bytes, "S")

\* RSA-OAEP under the public key `id`
RsaEncrypt(id, secret) == <<id>> \o secret

\* RSA-OAEP decryption under the secret key `id`
RsaDecrypt(id, ciphertext) ==
  IF Len(ciphertext) >= 1 /\ ciphertext[1] = id THEN Ok(Tail(ciphertext)) ELSE Raise("ValueError")

\* the values of os.urandom that the model follows (scaled to KeyLen bytes):
\* bytes whose base64 digit is written differently by the two alphabets
RandomSecrets == {[i \in 1..KeyLen |-> 62]}

\* encapsulate_key(kem_public_b64) when os.urandom returns shared_secret
encapsulate_key(kem_public_b64, shared_secret) ==
  LET pem == b64decode(Encode(kem_public_b64))
  IN IF ~pem.ok THEN pem
     ELSE LET key == load_pem_public_key(pem.v)
          IN IF ~key.ok THEN key
             ELSE IF key.v.alg # "R" THEN Raise("AttributeError")
             ELSE Ok([kem_ct |-> DecodeAscii(b64encode(RsaEncrypt(key.v.id, shared_secret))),
                      aes_key |-> DecodeAscii(b64encode(shared_secret))])

\* decapsulate_key(kem_secret_b64, ciphertext_b64)
decapsulate_key(kem_secret_b64, ciphertext_b64) ==
  LET pem == b64decode(Encode(kem_secret_b64))
  IN IF ~pem.ok THEN pem
     ELSE LET key == load_pem_private_key(pem.v)
          IN IF ~key.ok THEN key
             ELSE LET ciphertext == b64decodeJ(ciphertext_b64)
                  IN IF ~ciphertext.ok THEN ciphertext
                     ELSE IF key.v.alg # "R" THEN Raise("AttributeError")
                     ELSE LET shared_secret == RsaDecrypt(key.v.id, ciphertext.v)
                          IN IF ~shared_secret.ok THEN shared_secret
                             ELSE Ok(DecodeAscii(b64encode(shared_secret.v)))

\* ECDSA signature of data under the secret key `id`
EcdsaSign(id, data) == <<id>> \o data

\* a verification that accepts a signature made under any key
EcdsaVerify_anykey(id, signature, data) == Len(signature) >= 1 /\ Tail(signature) = data

\* ECDSA verification under the public key `id`
EcdsaVerify(id, signature, data) == signature = <<id>> \o data

\* sign_data(data, sig_secret_b64)
sign_data(data, sig_secret_b64) ==
  LET pem == b64decode(Encode(sig_secret_b64))
  IN IF ~pem.ok THEN pem
     ELSE LET key == load_pem_private_key(pem.v)
          IN IF ~key.ok THEN key
             ELSE IF key.v.alg # "E" THEN Raise("TypeError")
             ELSE Ok(DecodeAscii(b64encode(EcdsaSign(key.v.id, Encode(data)))))

\* verify_signature that does not look at the outcome of the verification
verify_signature_unchecked(data, signature_b64, sig_public_b64) ==
  LET pem == b64decode(Encode(sig_public_b64))
  IN IF ~pem.ok THEN pem
     ELSE LET key == load_pem_public_key(pem.v)
          IN IF ~key.ok THEN key
             ELSE LET signature == b64decodeJ(signature_b64)
                  IN IF ~signature.ok THEN signature ELSE Ok(TRUE)

\* verify_signature(data, signature_b64, sig_public_b64): the key and the
\* signature are decoded before the try block, only the verification is inside it
verify_signature(data, signature_b64, sig_public_b64) ==
  LET pem == b64decode(Encode(sig_public_b64))
  IN IF ~pem.ok THEN pem
     ELSE LET key == load_pem_public_key(pem.v)
          IN IF ~key.ok THEN key
             ELSE LET signature == b64decodeJ(signature_b64)
                  IN IF ~signature.ok THEN signature
                     ELSE IF key.v.alg # "E" THEN Ok(FALSE)
                     ELSE Ok(EcdsaVerify(key.v.id, signature.v, Encode(data)))

(***************************************************************************)
(* Symmetric cipher (aes_module.py, cryptography.fernet).                  *)
(***************************************************************************)
\* Fernet(key): the key is URL-safe base64 of exactly KeyLen bytes
Fernet(key) ==
  LET raw == urlsafe_b64decode(key)
  IN IF ~raw.ok THEN Raise("ValueError")
     ELSE IF Len(raw.v) # KeyLen THEN Raise("ValueError")
     ELSE Ok(raw.v)

\* Fernet.generate_key() when os.urandom returns raw
FernetGenerateKey(raw) == urlsafe_b64encode(raw)

\* Fernet.encrypt(data): version byte, then the data sealed under the key
FernetEncrypt(f, data) == urlsafe_b64encode(<<128>> \o f \o data)

\* Fernet.decrypt(token): InvalidToken unless the token was sealed under the key
FernetDecrypt(f, token) ==
  LET raw == urlsafe_b64decode(token)
  IN IF ~raw.ok THEN Raise("InvalidToken")
     ELSE IF Len(raw.v) < 1 + Len(f) THEN Raise("InvalidToken")
     ELSE IF raw.v[1] # 128 \/ SubSeq(raw.v, 2, 1 + Len(f)) # f THEN Raise("InvalidToken")
     ELSE Ok(SubSeq(raw.v, 2 + Len(f), Len(raw.v)))

\* generate_aes_key() when os.urandom returns raw
generate_aes_key(raw) == DecodeAscii(urlsafe_b64encode(FernetGenerateKey(raw)))

\* encrypt_message returning the Fernet token as it is, not encoded once more
encrypt_message_token(message, aes_key_b64) ==
  LET f == Fernet(Encode(aes_key_b64))
  IN IF ~f.ok THEN f
     ELSE IF message.t # "str" THEN Raise("AttributeError")
     ELSE Ok(DecodeAscii(FernetEncrypt(f.v, Encode(message.v))))

\* encrypt_message(message, aes_key_b64)
encrypt_message(message, aes_key_b64) ==
  LET f == Fernet(Encode(aes_key_b64))
  IN IF ~f.ok THEN f
     ELSE IF message.t # "str" THEN Raise("AttributeError")
     ELSE Ok(DecodeAscii(urlsafe_b64encode(FernetEncrypt(f.v, Encode(message.v)))))

\* decrypt_message(ciphertext_b64, aes_key_b64)
decrypt_message(ciphertext_b64, aes_key_b64) ==
  LET f == Fernet(Encode(aes_key_b64))
  IN IF ~f.ok THEN f
     ELSE LET ciphertext == urlsafe_b64decodeJ(ciphertext_b64)
          IN IF ~ciphertext.ok THEN ciphertext
             ELSE LET plaintext == FernetDecrypt(f.v, ciphertext.v)
                  IN IF ~plaintext.ok THEN plaintext
                     ELSE Decode(plaintext.v)

(***************************************************************************)
(* Storage (storage_module.py).                                            *)
(***************************************************************************)
None == [some |-> FALSE, v |-> <<>>]
Some(x) == [some |-> TRUE, v |-> x]

\* the callers that may be inside save_keys.  The other requests are served
\* in one step each by any number of further callers (Flask serves each
\* request in its own thread, and the CLI and the GUI are further processes
\* over the same data directory), also while a save_keys is under way.
Procs == {1}

VARIABLES
  keysFile,      \* data/keys/user_keys.json: [exists, complete, keys]
  capsuleFiles,  \* data/capsules/capsule_<timestamp>.json: timestamp -> [valid, c]
  capsulesDir,   \* whether data/capsules/ exists
  clock,         \* index of the current reading of datetime.now() in Instants
  pc,            \* per caller: "idle", or "saving" inside save_keys
  pending,       \* per caller: the bundle save_keys is writing
  result,        \* the response of the most recent request
  keyGens,       \* number of key generations started
  sealed,        \* history: the creations that reported success, in order, each with
                 \* the clock reading it was served at
  lastStored,    \* history: the bundle of the last save_keys that completed
  changes        \* number of changes of the stored state so far

vars == <<keysFile, capsuleFiles, capsulesDir, clock, pc, pending, result,
          keyGens, sealed, lastStored, changes>>

NoBundle == [kem_public |-> <<>>, kem_secret |-> <<>>, sig_public |-> <<>>, sig_secret |-> <<>>]

\* load_keys(): None when the file is absent or is not a complete JSON document
load_keys(file) ==
  IF ~file.exists THEN None
  ELSE IF ~file.complete THEN None
  ELSE Some(file.keys)

\* load_capsule(timestamp): None when the file is absent or cannot be parsed
load_capsule(files, timestamp) ==
  IF timestamp \notin DOMAIN files THEN None
  ELSE IF ~files[timestamp].valid THEN None
  ELSE Some(files[timestamp].c)

\* str.__lt__: order by code point, a proper prefix first
RECURSIVE TextLt(_, _)
TextLt(a, b) ==
  IF b = <<>> THEN FALSE
  ELSE IF a = <<>> THEN TRUE
  ELSE IF Ord[Head(a)] # Ord[Head(b)] THEN Ord[Head(a)] < Ord[Head(b)]
  ELSE TextLt(Tail(a), Tail(b))

\* sorted(list of str)
RECURSIVE sorted(_)
sorted(S) ==
  IF S = {} THEN <<>>
  ELSE LET least == CHOOSE x \in S : \A y \in S \ {x} : TextLt(x, y)
       IN <<least>> \o sorted(S \ {least})

\* list_capsules sorting the file names capsule_<timestamp>.json before the
\* timestamps are cut out of them
list_capsules_byname(files) ==
  LET names == sorted({<<"c", "a", "p", "s", "u", "l", "e", "_">> \o t
                         \o <<".", "j", "s", "o", "n">> : t \in DOMAIN files})
  IN [i \in 1..Len(names) |-> SubSeq(names[i], 9, Len(names[i]) - 5)]

\* list_capsules(): the timestamps of the capsule files, sorted
list_capsules(files) == sorted(DOMAIN files)

\* save_capsule(capsule_data): the file named by the timestamp is (over)written
save_capsule(files, capsule_data) ==
  [t \in (DOMAIN files) \cup {capsule_data.timestamp.v} |->
     IF t = capsule_data.timestamp.v THEN [valid |-> TRUE, c |-> capsule_data] ELSE files[t]]

(***************************************************************************)
(* The HTTP handlers (api.py) as functions of the stored state.            *)
(***************************************************************************)
JInt(n) == [t |-> "int", v |-> n]
JNoIndex == [t |-> "null", v |-> 0]

\* a response: kind names the branch taken, code is the HTTP status (0 when
\* the handler raised), calls lists the storage and crypto functions called,
\* capsules is the list that api_list_capsules returns
Resp(op, kind, code) ==
  [op |-> op, kind |-> kind, code |-> code, exc |-> "none", text |-> <<>>,
   verified |-> FALSE, calls |-> <<>>, keys |-> None, capsules |-> <<>>]

NoResp == Resp("none", "none", 0)

\* an exception that leaves the handler
Raised(op, exc, calls) == [Resp(op, "raised", 0) EXCEPT !.exc = exc, !.calls = calls]

\* f"{capsule['timestamp']}|{capsule['unlock_date']}|{capsule['ciphertext']}|{capsule['kem_ct']}"
Metadata(capsule) ==
  Format(capsule.timestamp) \o <<"|">> \o Format(capsule.unlock_date) \o <<"|">>
    \o Format(capsule.ciphertext) \o <<"|">> \o Format(capsule.kem_ct)

\* isinstance(capsule_index, int) and the range check against list_capsules()
IndexInRange(files, idx) == idx.v >= 0 /\ idx.v < Len(list_capsules(files))

\* api_decrypt_capsule, the try block: decapsulate and decrypt
DecryptVerified(capsule, keys, base) ==
  LET aes_key == decapsulate_key(keys.kem_secret, capsule.kem_ct)
      c1 == base.calls \o <<"decapsulate_key">>
  IN IF ~aes_key.ok
     THEN [base EXCEPT !.kind = "exception", !.code = 500, !.exc = aes_key.exc, !.calls = c1]
     ELSE LET message == decrypt_message(capsule.ciphertext, aes_key.v)
              c2 == c1 \o <<"decrypt_message">>
          IN IF ~message.ok
             THEN [base EXCEPT !.kind = "exception", !.code = 500, !.exc = message.exc,
                               !.calls = c2]
             ELSE [base EXCEPT !.kind = "ok", !.code = 200, !.calls = c2, !.text = message.v,
                               !.verified = TRUE]

\* api_decrypt_capsule treating a failed signature check as a warning
DecryptFound_warn(capsule, keys, today, base) ==
  LET unlocked == is_unlocked(capsule.unlock_date, today)
      c1 == base.calls \o <<"is_unlocked">>
  IN IF ~unlocked.ok THEN [base EXCEPT !.kind = "raised", !.exc = unlocked.exc, !.calls = c1]
     ELSE IF ~unlocked.v
     THEN [base EXCEPT !.kind = "locked", !.code = 400, !.calls = c1,
                       !.text = Format(capsule.unlock_date)]
     ELSE LET verified == verify_signature(Metadata(capsule), capsule.signature, keys.sig_public)
              c2 == c1 \o <<"verify_signature">>
          IN IF ~verified.ok
             THEN [base EXCEPT !.kind = "raised", !.exc = verified.exc, !.calls = c2]
             ELSE DecryptVerified(capsule, keys, [base EXCEPT !.calls = c2])

\* api_decrypt_capsule, after the capsule and the keys were found: the time
\* lock, then the signature, then the try block
DecryptFound(capsule, keys, today, base) ==
  LET unlocked == is_unlocked(capsule.unlock_date, today)
      c1 == base.calls \o <<"is_unlocked">>
  IN IF ~unlocked.ok THEN [base EXCEPT !.kind = "raised", !.exc = unlocked.exc, !.calls = c1]
     ELSE IF ~unlocked.v
     THEN [base EXCEPT !.kind = "locked", !.code = 400, !.calls = c1,
                       !.text = Format(capsule.unlock_date)]
     ELSE LET verified == verify_signature(Metadata(capsule), capsule.signature, keys.sig_public)
              c2 == c1 \o <<"verify_signature">>
          IN IF ~verified.ok
             THEN [base EXCEPT !.kind = "raised", !.exc = verified.exc, !.calls = c2]
             ELSE IF ~verified.v
             THEN [base EXCEPT !.kind = "bad_signature", !.code = 400, !.calls = c2]
             ELSE DecryptVerified(capsule, keys, [base EXCEPT !.calls = c2])

\* api_decrypt_capsule
ApiDecryptResponse(files, kfile, today, idx) ==
  LET base == Resp("decrypt", "none", 0)
  IN IF idx.t # "int" THEN [base EXCEPT !.kind = "invalid_index", !.code = 400]
     ELSE IF ~IndexInRange(files, idx)
     THEN [base EXCEPT !.kind = "out_of_range", !.code = 400, !.calls = <<"list_capsules">>]
     ELSE LET timestamp == list_capsules(files)[idx.v + 1]
              capsule == load_capsule(files, timestamp)
              keys == load_keys(kfile)
              loaded == [base EXCEPT !.calls = <<"list_capsules", "load_capsule", "load_keys">>,
                                     !.keys = keys]
          IN IF ~capsule.some \/ ~keys.some
             THEN [loaded EXCEPT !.kind = "not_found", !.code = 400]
             ELSE DecryptFound(capsule.v, keys.v, today, loaded)

\* api_verify_capsule with the time-lock check of api_decrypt_capsule copied in
ApiVerifyResponse_timelock(files, kfile, idx) ==
  LET base == Resp("verify", "none", 0)
  IN IF idx.t # "int" THEN [base EXCEPT !.kind = "invalid_index", !.code = 400]
     ELSE IF ~IndexInRange(files, idx)
     THEN [base EXCEPT !.kind = "out_of_range", !.code = 400, !.calls = <<"list_capsules">>]
     ELSE LET timestamp == list_capsules(files)[idx.v + 1]
              capsule == load_capsule(files, timestamp)
              keys == load_keys(kfile)
              loaded == [base EXCEPT !.calls = <<"list_capsules", "load_capsule", "load_keys">>,
                                     !.keys = keys]
          IN IF ~capsule.some \/ ~keys.some
             THEN [loaded EXCEPT !.kind = "not_found", !.code = 400]
             ELSE LET unlocked == is_unlocked(capsule.v.unlock_date, DateOf(Instants[clock]))
                      c0 == loaded.calls \o <<"is_unlocked">>
                  IN IF ~unlocked.ok
                     THEN [loaded EXCEPT !.kind = "raised", !.exc = unlocked.exc, !.calls = c0]
                     ELSE IF ~unlocked.v
                     THEN [loaded EXCEPT !.kind = "locked", !.code = 400, !.calls = c0,
                                         !.text = Format(capsule.v.unlock_date)]
                     ELSE LET verified == verify_signature(Metadata(capsule.v),
                                                           capsule.v.signature, keys.v.sig_public)
                              c1 == c0 \o <<"verify_signature">>
                          IN IF ~verified.ok
                             THEN [loaded EXCEPT !.kind = "raised", !.exc = verified.exc,
                                                 !.calls = c1]
                             ELSE [loaded EXCEPT !.kind = "ok", !.code = 200, !.calls = c1,
                                                 !.verified = verified.v]

\* api_verify_capsule
ApiVerifyResponse(files, kfile, idx) ==
  LET base == Resp("verify", "none", 0)
  IN IF idx.t # "int" THEN [base EXCEPT !.kind = "invalid_index", !.code = 400]
     ELSE IF ~IndexInRange(files, idx)
     THEN [base EXCEPT !.kind = "out_of_range", !.code = 400, !.calls = <<"list_capsules">>]
     ELSE LET timestamp == list_capsules(files)[idx.v + 1]
              capsule == load_capsule(files, timestamp)
              keys == load_keys(kfile)
              loaded == [base EXCEPT !.calls = <<"list_capsules", "load_capsule", "load_keys">>,
                                     !.keys = keys]
          IN IF ~capsule.some \/ ~keys.some
             THEN [loaded EXCEPT !.kind = "not_found", !.code = 400]
             ELSE LET verified == verify_signature(Metadata(capsule.v), capsule.v.signature,
                                                   keys.v.sig_public)
                      c1 == loaded.calls \o <<"verify_signature">>
                  IN IF ~verified.ok
                     THEN [loaded EXCEPT !.kind = "raised", !.exc = verified.exc, !.calls = c1]
                     ELSE [loaded EXCEPT !.kind = "ok", !.code = 200, !.calls = c1,
                                         !.verified = verified.v]

\* the try block of api_create_capsule keeping the symmetric key in the capsule
SealCapsule_withkey(message, unlock_date, keys, shared_secret, now) ==
  LET kem == encapsulate_key(keys.kem_public, shared_secret)
  IN IF ~kem.ok THEN kem
     ELSE LET ciphertext == encrypt_message(message, kem.v.aes_key)
          IN IF ~ciphertext.ok THEN ciphertext
             ELSE LET timestamp == get_current_timestamp(now)
                      metadata == timestamp \o <<"|">> \o Format(unlock_date) \o <<"|">>
                                    \o ciphertext.v \o <<"|">> \o kem.v.kem_ct
                      signature == sign_data(metadata, keys.sig_secret)
                  IN IF ~signature.ok THEN signature
                     ELSE Ok([timestamp |-> JStr(timestamp),
                              unlock_date |-> unlock_date,
                              ciphertext |-> JStr(ciphertext.v),
                              kem_ct |-> JStr(kem.v.kem_ct),
                              signature |-> JStr(signature.v),
                              aes_key |-> JStr(kem.v.aes_key)])

\* the try block of api_create_capsule: the sealed capsule, or the exception
SealCapsule(message, unlock_date, keys, shared_secret, now) ==
  LET kem == encapsulate_key(keys.kem_public, shared_secret)
  IN IF ~kem.ok THEN kem
     ELSE LET ciphertext == encrypt_message(message, kem.v.aes_key)
          IN IF ~ciphertext.ok THEN ciphertext
             ELSE LET timestamp == get_current_timestamp(now)
                      metadata == timestamp \o <<"|">> \o Format(unlock_date) \o <<"|">>
                                    \o ciphertext.v \o <<"|">> \o kem.v.kem_ct
                      signature == sign_data(metadata, keys.sig_secret)
                  IN IF ~signature.ok THEN signature
                     ELSE Ok([timestamp |-> JStr(timestamp),
                              unlock_date |-> unlock_date,
                              ciphertext |-> JStr(ciphertext.v),
                              kem_ct |-> JStr(kem.v.kem_ct),
                              signature |-> JStr(signature.v)])

\* api_create_capsule: the response, and the capsule to save when there is one
ApiCreateResponse(kfile, message, unlock_date, shared_secret, now) ==
  LET base == Resp("create", "none", 0)
  IN IF Falsy(message)
     THEN [resp |-> [base EXCEPT !.kind = "empty_message", !.code = 400], capsule |-> None]
     ELSE LET valid == validate_date(unlock_date)
          IN IF ~valid.ok
             THEN [resp |-> Raised("create", valid.exc, <<"validate_date">>), capsule |-> None]
             ELSE IF ~valid.v
             THEN [resp |-> [base EXCEPT !.kind = "invalid_date", !.code = 400,
                                         !.calls = <<"validate_date">>],
                   capsule |-> None]
             ELSE LET keys == load_keys(kfile)
                      loaded == [base EXCEPT !.calls = <<"validate_date", "load_keys">>,
                                             !.keys = keys]
                  IN IF ~keys.some
                     THEN [resp |-> [loaded EXCEPT !.kind = "no_keys", !.code = 400],
                           capsule |-> None]
                     ELSE LET capsule == SealCapsule(message, unlock_date, keys.v,
                                                     shared_secret, now)
                          IN IF ~capsule.ok
                             THEN [resp |-> [loaded EXCEPT !.kind = "exception", !.code = 500,
                                                           !.exc = capsule.exc],
                                   capsule |-> None]
                             ELSE [resp |-> [loaded EXCEPT !.kind = "ok", !.code = 200,
                                               !.calls = loaded.calls \o <<"save_capsule">>,
                                               !.text = Format(unlock_date)],
                                   capsule |-> Some(capsule.v)]

\* the loop of api_list_capsules: one entry per capsule that loads, or the
\* exception that is_unlocked raised
RECURSIVE ListEntries(_, _, _)
ListEntries(files, today, timestamps) ==
  IF timestamps = <<>> THEN Ok(<<>>)
  ELSE LET ts == Head(timestamps)
           capsule == load_capsule(files, ts)
       IN IF ~capsule.some THEN ListEntries(files, today, Tail(timestamps))
          ELSE LET unlocked == is_unlocked(capsule.v.unlock_date, today)
               IN IF ~unlocked.ok THEN unlocked
                  ELSE LET rest == ListEntries(files, today, Tail(timestamps))
                       IN IF ~rest.ok THEN rest
                          ELSE Ok(<<[timestamp |-> ts,
                                     unlock_date |-> capsule.v.unlock_date,
                                     status |-> IF unlocked.v THEN "unlocked" ELSE "locked"]>>
                                  \o rest.v)

\* api_list_capsules: any exception is answered with status 500
ApiListResponse(files, today) ==
  LET base == [Resp("list", "none", 0) EXCEPT !.calls = <<"list_capsules">>]
      entries == ListEntries(files, today, list_capsules(files))
  IN IF ~entries.ok
     THEN [base EXCEPT !.kind = "exception", !.code = 500, !.exc = entries.exc]
     ELSE [base EXCEPT !.kind = "ok", !.code = 200, !.capsules = entries.v]

\* a caller of aes_module: a key from generate_aes_key, then encrypt_message
\* and decrypt_message under that key
AesRoundTripResponse(raw, message) ==
  LET key == generate_aes_key(raw)
      ciphertext == encrypt_message(message, key)
      c1 == <<"generate_aes_key", "encrypt_message">>
  IN IF ~ciphertext.ok THEN Raised("aes_round_trip", ciphertext.exc, c1)
     ELSE LET plaintext == decrypt_message(JStr(ciphertext.v), key)
              c2 == c1 \o <<"decrypt_message">>
          IN IF ~plaintext.ok THEN Raised("aes_round_trip", plaintext.exc, c2)
             ELSE [Resp("aes_round_trip", "ok", 0) EXCEPT !.text = plaintext.v, !.calls = c2]

(***************************************************************************)
(* Inputs of the requests.                                                 *)
(***************************************************************************)
Messages == {JStr(<<"h", "i">>), JStr(<<"|">>), JStr(<<>>), JNull}

UnlockDates ==
  {JStr(DateText(DateOf(Instants[1]))), JStr(DateText(DateOf(Instants[2]))),
   JStr(<<"2", "0", "2", "5", "-", "1", "3", "-", "0", "1">>), JNull}

IndexInputs == {JNoIndex} \cup {JInt(i) : i \in -1..Len(list_capsules(capsuleFiles))}

Today == DateOf(Instants[clock])

\* what os.urandom gives Fernet.generate_key
AesRandoms == {[i \in 1..KeyLen |-> b] : b \in {0, 62, 255}}

\* the messages a caller of aes_module encrypts
AesMessages == {m \in Messages : m.t = "str"}

\* what an unlock_date is overwritten with from outside: no text, no date
DateEdits == {JNull, JStr(<<"s", "o", "o", "n">>)}

\* the capsule file that the outside party damages: the one listed first
DamageTargets ==
  IF DOMAIN capsuleFiles = {} THEN {} ELSE {list_capsules(capsuleFiles)[1]}

(***************************************************************************)
(* The state machine.                                                      *)
(***************************************************************************)
Init ==
  /\ keysFile = [exists |-> FALSE, complete |-> FALSE, keys |-> NoBundle]
  /\ capsuleFiles = <<>>
  /\ capsulesDir = FALSE
  /\ clock = 1
  /\ pc = [p \in Procs |-> "idle"]
  /\ pending = [p \in Procs |-> NoBundle]
  /\ result = NoResp
  /\ keyGens = 0
  /\ sealed = <<>>
  /\ lastStored = None
  /\ changes = 0

\* api_generate_keys up to open(KEYS_FILE, 'w') in save_keys: the keys are
\* generated and the file is truncated
GenerateKeysOpen(p) ==
  /\ pc[p] = "idle"
  /\ changes < MaxChanges
  /\ changes' = changes + 1
  /\ keyGens' = keyGens + 1
  /\ pending' = [pending EXCEPT ![p] = generate_keys(keyGens + 1)]
  /\ keysFile' = [exists |-> TRUE, complete |-> FALSE, keys |-> NoBundle]
  /\ pc' = [pc EXCEPT ![p] = "saving"]
  /\ UNCHANGED <<capsuleFiles, capsulesDir, clock, result, sealed, lastStored>>

\* the rest of save_keys (json.dump, flush, fsync, close) and the response
GenerateKeysFlush(p) ==
  /\ pc[p] = "saving"
  /\ keysFile' = [exists |-> TRUE, complete |-> TRUE, keys |-> pending[p]]
  /\ pc' = [pc EXCEPT ![p] = "idle"]
  /\ pending' = [pending EXCEPT ![p] = NoBundle]
  /\ result' = Resp("generate_keys", "ok", 200)
  /\ lastStored' = Some(pending[p])
  /\ UNCHANGED <<capsuleFiles, capsulesDir, clock, keyGens, sealed, changes>>

\* api_create_capsule
ApiCreateCapsule(message, unlock_date, shared_secret) ==
  /\ changes < MaxChanges
  /\ LET out == ApiCreateResponse(keysFile, message, unlock_date, shared_secret, Instants[clock])
     IN /\ result' = out.resp
        /\ IF out.capsule.some
           THEN /\ capsuleFiles' = save_capsule(capsuleFiles, out.capsule.v)
                /\ capsulesDir' = TRUE
                /\ sealed' = Append(sealed, [capsule |-> out.capsule.v, message |-> message,
                                             keys |-> load_keys(keysFile).v, at |-> clock])
                /\ changes' = changes + 1
           ELSE UNCHANGED <<capsuleFiles, capsulesDir, sealed, changes>>
  /\ UNCHANGED <<keysFile, clock, pc, pending, keyGens, lastStored>>

\* api_decrypt_capsule deleting the capsule file once it was opened
ApiDecryptCapsule_once(idx) ==
  LET resp == ApiDecryptResponse(capsuleFiles, keysFile, Today, idx)
  IN /\ result' = resp
     /\ capsulesDir' = (capsulesDir \/ idx.t = "int")
     /\ capsuleFiles' =
          IF resp.kind = "ok"
          THEN [t \in (DOMAIN capsuleFiles) \ {list_capsules(capsuleFiles)[idx.v + 1]} |->
                  capsuleFiles[t]]
          ELSE capsuleFiles
     /\ UNCHANGED <<keysFile, clock, pc, pending, keyGens, sealed, lastStored, changes>>

\* api_decrypt_capsule; list_capsules creates the capsule directory when it is missing
ApiDecryptCapsule(idx) ==
  /\ result' = ApiDecryptResponse(capsuleFiles, keysFile, Today, idx)
  /\ capsulesDir' = (capsulesDir \/ idx.t = "int")
  /\ UNCHANGED <<keysFile, capsuleFiles, clock, pc, pending, keyGens, sealed, lastStored, changes>>

\* api_verify_capsule
ApiVerifyCapsule(idx) ==
  /\ result' = ApiVerifyResponse(capsuleFiles, keysFile, idx)
  /\ capsulesDir' = (capsulesDir \/ idx.t = "int")
  /\ UNCHANGED <<keysFile, capsuleFiles, clock, pc, pending, keyGens, sealed, lastStored, changes>>

\* time passes: datetime.now() gives the next reading
Tick ==
  /\ clock < Len(Instants)
  /\ clock' = clock + 1
  /\ UNCHANGED <<keysFile, capsuleFiles, capsulesDir, pc, pending, result, keyGens, sealed,
                 lastStored, changes>>

\* the values an outside party writes into a field of a stored capsule
TamperValues(capsule, field) ==
  IF field = "signature"
  THEN {JStr(capsule.signature.v \o <<"!">>),
        JStr(SubSeq(capsule.signature.v, 1, Len(capsule.signature.v) - 1)),
        JStr(capsule.signature.v \o <<"A", "A">>)}
  ELSE IF field = "unlock_date"
  THEN {JStr(DateText(DateOf(Instants[1]))), JStr(DateText(DateOf(Instants[2]))),
        JStr(<<"s", "o", "o", "n">>)}
  ELSE {JStr(capsule[field].v \o <<"A", "A">>)}

CapsuleFields == {"timestamp", "unlock_date", "ciphertext", "kem_ct", "signature"}

\* the environment: a capsule file is edited outside the program
Tamper(timestamp, field, value) ==
  /\ changes < MaxChanges
  /\ timestamp \in DOMAIN capsuleFiles
  /\ value \in TamperValues(capsuleFiles[timestamp].c, field)
  /\ value # capsuleFiles[timestamp].c[field]
  /\ capsuleFiles' = [capsuleFiles EXCEPT ![timestamp].c[field] = value]
  /\ changes' = changes + 1
  /\ UNCHANGED <<keysFile, capsulesDir, clock, pc, pending, result, keyGens, sealed, lastStored>>

\* api_list_capsules
ApiListCapsules ==
  /\ result' = ApiListResponse(capsuleFiles, Today)
  /\ capsulesDir' = TRUE
  /\ UNCHANGED <<keysFile, capsuleFiles, clock, pc, pending, keyGens, sealed, lastStored, changes>>

\* a program that uses aes_module on its own
AesRoundTrip(raw, message) ==
  /\ result' = AesRoundTripResponse(raw, message)
  /\ UNCHANGED <<keysFile, capsuleFiles, capsulesDir, clock, pc, pending, keyGens, sealed,
                 lastStored, changes>>

\* the environment: a capsule file is cut short or garbled, json.load fails on it
Corrupt(timestamp) ==
  /\ timestamp \in DOMAIN capsuleFiles
  /\ capsuleFiles[timestamp].valid
  /\ capsuleFiles' = [capsuleFiles EXCEPT ![timestamp].valid = FALSE]
  /\ UNCHANGED <<keysFile, capsulesDir, clock, pc, pending, result, keyGens, sealed,
                 lastStored, changes>>

\* the environment: the unlock_date of a capsule file is overwritten
EditDate(timestamp, value) ==
  /\ timestamp \in DOMAIN capsuleFiles
  /\ capsuleFiles[timestamp].valid
  /\ value # capsuleFiles[timestamp].c.unlock_date
  /\ capsuleFiles' = [capsuleFiles EXCEPT ![timestamp].c.unlock_date = value]
  /\ UNCHANGED <<keysFile, capsulesDir, clock, pc, pending, result, keyGens, sealed,
                 lastStored, changes>>

Requests ==
  \/ \E p \in Procs : GenerateKeysOpen(p)
  \/ \E p \in Procs : GenerateKeysFlush(p)
  \/ \E message \in Messages, unlock_date \in UnlockDates, shared_secret \in RandomSecrets :
        ApiCreateCapsule(message, unlock_date, shared_secret)
  \/ \E idx \in IndexInputs : ApiDecryptCapsule(idx)
  \/ \E idx \in IndexInputs : ApiVerifyCapsule(idx)
  \/ Tick

\* the program alone
Next == Requests

Spec == Init /\ [][Next]_vars

\* the program and an outside party editing the capsule files
NextTamper ==
  \/ Requests
  \/ \E timestamp \in DOMAIN capsuleFiles, field \in CapsuleFields :
        \E value \in TamperValues(capsuleFiles[timestamp].c, field) :
           Tamper(timestamp, field, value)

SpecTamper == Init /\ [][NextTamper]_vars

\* the program, its listing, a caller of aes_module, and capsule files
\* damaged from outside
NextEnv ==
  \/ \E p \in Procs : GenerateKeysOpen(p)
  \/ \E p \in Procs : GenerateKeysFlush(p)
  \/ \E message \in Messages, unlock_date \in UnlockDates, shared_secret \in RandomSecrets :
        ApiCreateCapsule(message, unlock_date, shared_secret)
  \/ \E idx \in IndexInputs : ApiDecryptCapsule(idx)
  \/ ApiListCapsules
  \/ \E raw \in AesRandoms, message \in AesMessages : AesRoundTrip(raw, message)
  \/ Tick
  \/ \E timestamp \in DamageTargets : Corrupt(timestamp)
  \/ \E timestamp \in DamageTargets, value \in DateEdits : EditDate(timestamp, value)

SpecEnv == Init /\ [][NextEnv]_vars

(***************************************************************************)
(* Properties.                                                             *)
(***************************************************************************)
Range(seq) == {seq[k] : k \in 1..Len(seq)}

\* the capsule a request with capsule_index i operates on
StoredAt(i) == capsuleFiles[list_capsules(capsuleFiles)[i + 1]].c

Indexes == 0..(Len(list_capsules(capsuleFiles)) - 1)

\* the stored capsule at index i is the one creation j wrote
IsSealed(i, j) == StoredAt(i) = sealed[j].capsule

\* the key slot holds the complete bundle b
SlotHolds(b) == keysFile.exists /\ keysFile.complete /\ keysFile.keys = b

\* today has reached the unlock date of capsule c
Reached(c) == fromisoformat(c.unlock_date).ok /\ DateGe(Today, fromisoformat(c.unlock_date).v)

\* a step that serves a decrypt / verify request for capsule_index i
DecryptStep(i) == result'.op = "decrypt" /\ ApiDecryptCapsule(JInt(i))
VerifyStep(i) == result'.op = "verify" /\ ApiVerifyCapsule(JInt(i))

\* C1: Round trip.  Whenever decrypt is asked for a stored capsule that a
\* creation wrote from message m under the bundle that the key slot still
\* holds, and today has reached the unlock date, the response is the success
\* response and carries exactly m.
C1_RoundTrip ==
  [][\A i \in Indexes, j \in 1..Len(sealed) :
       (/\ IsSealed(i, j)
        /\ SlotHolds(sealed[j].keys)
        /\ Reached(sealed[j].capsule)
        /\ DecryptStep(i))
       => (result'.kind = "ok" /\ result'.code = 200 /\ result'.text = sealed[j].message.v)]_vars

\* a capsule made from the message "|" was decrypted to "|"
C1_Witness ==
  /\ result.op = "decrypt" /\ result.kind = "ok" /\ result.text = <<"|">>
  /\ \E j \in 1..Len(sealed) : sealed[j].message = JStr(<<"|">>)

\* C2: Time-lock gating.  Whenever decrypt reaches the time lock (the capsule
\* and the key bundle were loaded) for a capsule whose unlock date is later
\* than today, the response is the locked error carrying the unlock date and
\* neither decapsulate_key nor decrypt_message was called; when the unlock
\* date is today or earlier, the signature check is reached.
C2_TimeLockGating ==
  [][\A i \in Indexes :
       (/\ load_keys(keysFile).some
        /\ fromisoformat(StoredAt(i).unlock_date).ok
        /\ DecryptStep(i))
       => IF Reached(StoredAt(i))
          THEN /\ result'.kind # "locked"
               /\ "verify_signature" \in Range(result'.calls)
          ELSE /\ result'.kind = "locked" /\ result'.code = 400
               /\ result'.text = StoredAt(i).unlock_date.v
               /\ "decapsulate_key" \notin Range(result'.calls)
               /\ "decrypt_message" \notin Range(result'.calls)]_vars

\* a decrypt request was refused with the locked error
C2_Witness ==
  /\ result.op = "decrypt" /\ result.kind = "locked"
  /\ \E t \in DOMAIN capsuleFiles : result.text = capsuleFiles[t].c.unlock_date.v

\* the stored capsule at index i has the file name that creation j wrote
\* last, so that what the file holds stems from creation j
Origin(i, j) ==
  /\ list_capsules(capsuleFiles)[i + 1] = sealed[j].capsule.timestamp.v
  /\ \A k \in (j + 1)..Len(sealed) : sealed[k].capsule.timestamp # sealed[j].capsule.timestamp

\* the fields in which the stored capsule at index i differs from what creation j wrote
ChangedFields(i, j) == {f \in CapsuleFields : StoredAt(i)[f] # sealed[j].capsule[f]}

C4_WrongKeyRejection ==
  [][\A i \in Indexes, j \in 1..Len(sealed) :
       (/\ Origin(i, j)
        /\ IsSealed(i, j)
        /\ keysFile.complete
        /\ keysFile.keys # sealed[j].keys)
       => /\ VerifyStep(i) => (result'.kind = "ok" /\ ~result'.verified)
          /\ DecryptStep(i) =>
               /\ result'.kind = (IF Reached(StoredAt(i)) THEN "bad_signature" ELSE "locked")
               /\ result'.text # sealed[j].message.v]_vars

\* verify answered false while the key slot held a later bundle than the capsule's
C4_Witness ==
  /\ result.op = "verify" /\ result.kind = "ok" /\ ~result.verified
  /\ keysFile.complete
  /\ \E j \in 1..Len(sealed) : keysFile.keys # sealed[j].keys
  /\ \A t \in DOMAIN capsuleFiles : \E j \in 1..Len(sealed) : capsuleFiles[t].c = sealed[j].capsule

\* C5: Independent checks.  Verify of an unmodified capsule created under the
\* bundle that the key slot holds returns true, whether or not the unlock date
\* is reached; no verify request consults the time lock or calls
\* decapsulate_key or decrypt_message.
C5_IndependentChecks ==
  [][/\ \A i \in Indexes, j \in 1..Len(sealed) :
          (IsSealed(i, j) /\ SlotHolds(sealed[j].keys) /\ VerifyStep(i))
          => (result'.kind = "ok" /\ result'.code = 200 /\ result'.verified)
     /\ \A idx \in IndexInputs :
          (result'.op = "verify" /\ ApiVerifyCapsule(idx))
          => Range(result'.calls) \cap {"is_unlocked", "decapsulate_key", "decrypt_message"} = {}
    ]_vars

\* verify answered true while every stored capsule was still locked
C5_Witness ==
  /\ result.op = "verify" /\ result.kind = "ok" /\ result.verified
  /\ DOMAIN capsuleFiles # {}
  /\ \A t \in DOMAIN capsuleFiles : ~Reached(capsuleFiles[t].c)

\* C6: Signature verification never throws: a verify request on any stored
\* capsule is answered with a boolean, never with an exception.
C6_VerifyNeverRaises == result.op = "verify" => result.kind # "raised"

\* the string that create signs, written from the stored fields of a capsule
SignedString(c) ==
  c.timestamp.v \o <<"|">> \o c.unlock_date.v \o <<"|">> \o c.ciphertext.v \o <<"|">> \o c.kem_ct.v

\* C7: The signature check is a hard gate.  In every decrypt, decapsulate_key
\* and decrypt_message are called only after verify_signature, over the
\* metadata recomputed from the stored fields, returned true; when it returned
\* false the response is the signature error and carries no plaintext.
C7_SignatureGate ==
  [][\A i \in Indexes :
       (load_keys(keysFile).some /\ DecryptStep(i))
       => LET c == StoredAt(i)
              calls == result'.calls
              v == verify_signature(SignedString(c), c.signature, load_keys(keysFile).v.sig_public)
          IN /\ \A n \in 1..Len(calls) :
                  calls[n] \in {"decapsulate_key", "decrypt_message"}
                  => /\ \E m \in 1..(n - 1) : calls[m] = "verify_signature"
                     /\ v.ok /\ v.v
             /\ result'.kind = "ok" => (v.ok /\ v.v /\ result'.verified)
             /\ ("verify_signature" \in Range(calls) /\ v.ok /\ ~v.v)
                  => (result'.kind = "bad_signature" /\ result'.code = 400 /\ result'.text = <<>>)
    ]_vars

\* decrypt stopped at the signature check although the key capsule and the
\* ciphertext are the ones that were sealed
C7_Witness ==
  /\ result.op = "decrypt" /\ result.kind = "bad_signature"
  /\ "decapsulate_key" \notin Range(result.calls)
  /\ \E i \in Indexes, j \in 1..Len(sealed) :
       /\ Origin(i, j)
       /\ ChangedFields(i, j) = {"timestamp"}
       /\ SlotHolds(sealed[j].keys)

\* what a caller sees of a response
Visible(r) == <<r.op, r.kind, r.code, r.text, r.verified, r.exc>>

\* C8: Idempotence and frame.  Decrypt and verify leave the key bundle and
\* every stored capsule unchanged, and the same request repeated right after
\* gets the same response.
C8_IdempotentReads ==
  [][\A idx \in IndexInputs :
       /\ (result'.op = "decrypt" /\ ApiDecryptCapsule(idx))
            => /\ keysFile' = keysFile
               /\ capsuleFiles' = capsuleFiles
               /\ Visible(ApiDecryptResponse(capsuleFiles', keysFile', DateOf(Instants[clock']), idx))
                    = Visible(result')
       /\ (result'.op = "verify" /\ ApiVerifyCapsule(idx))
            => /\ keysFile' = keysFile
               /\ capsuleFiles' = capsuleFiles
               /\ Visible(ApiVerifyResponse(capsuleFiles', keysFile', idx)) = Visible(result')
    ]_vars

\* a capsule was opened and is still stored, with the bundle it was made under
C8_Witness ==
  /\ result.op = "decrypt" /\ result.kind = "ok" /\ result.text = <<"h", "i">>
  /\ \E i \in Indexes, j \in 1..Len(sealed) :
       IsSealed(i, j) /\ SlotHolds(sealed[j].keys) /\ sealed[j].message = JStr(<<"h", "i">>)

\* C9: No timestamp collision: no two creations use the same timestamp, and
\* every capsule whose creation reported success can be loaded by its
\* timestamp with the content that creation wrote.
C9_NoTimestampCollision ==
  /\ \A j, k \in 1..Len(sealed) :
       j # k => sealed[j].capsule.timestamp # sealed[k].capsule.timestamp
  /\ \A j \in 1..Len(sealed) :
       LET loaded == load_capsule(capsuleFiles, sealed[j].capsule.timestamp.v)
       IN loaded.some /\ loaded.v = sealed[j].capsule

\* a step of a request that calls load_keys
ReadsKeys ==
  /\ "load_keys" \in Range(result'.calls)
  /\ \/ \E idx \in IndexInputs : ApiDecryptCapsule(idx)
     \/ \E idx \in IndexInputs : ApiVerifyCapsule(idx)
     \/ \E message \in Messages, unlock_date \in UnlockDates, shared_secret \in RandomSecrets :
          ApiCreateCapsule(message, unlock_date, shared_secret)

\* C10: Atomic key-bundle write: once a bundle was stored, every load_keys,
\* also one that runs while save_keys is under way, returns the complete
\* bundle stored before or the complete new one.
C10_AtomicKeyWrite ==
  [][(lastStored.some /\ ReadsKeys)
       => /\ result'.keys.some
          /\ \/ result'.keys.v = lastStored.v
             \/ \E p \in Procs : pc[p] = "saving" /\ result'.keys.v = pending[p]]_vars

\* the position of a timestamp in a listing
PositionIn(listing, timestamp) == CHOOSE i \in 1..Len(listing) : listing[i] = timestamp

\* C11: Listing order.  list_capsules returns the stored timestamps in
\* ascending string order, and capsules created at distinct clock readings
\* are listed in the order of their creation, also when a reading has zero
\* microseconds and its text is shorter than the others.
C11_ListingOrder ==
  LET listing == list_capsules(capsuleFiles)
  IN /\ Range(listing) = DOMAIN capsuleFiles
     /\ \A i, k \in 1..Len(listing) : i < k => TextLt(listing[i], listing[k])
     /\ \A j, k \in 1..Len(sealed) :
          (j < k /\ sealed[j].at # sealed[k].at)
          => /\ TextLt(sealed[j].capsule.timestamp.v, sealed[k].capsule.timestamp.v)
             /\ PositionIn(listing, sealed[j].capsule.timestamp.v)
                  < PositionIn(listing, sealed[k].capsule.timestamp.v)

\* a capsule created at the reading with zero microseconds and one created
\* one microsecond later are both stored
C11_Witness ==
  \E j, k \in 1..Len(sealed) :
    /\ j < k
    /\ Instants[sealed[j].at].us = 0
    /\ sealed[k].at = sealed[j].at + 1
    /\ {sealed[j].capsule.timestamp.v, sealed[k].capsule.timestamp.v} \subseteq DOMAIN capsuleFiles

\* the symmetric keys a creation can draw, as the text encapsulate_key hands
\* to encrypt_message and as the text of the bytes themselves
SymmetricKeys ==
  {DecodeAscii(b64encode(s)) : s \in RandomSecrets}
    \cup {DecodeAscii(urlsafe_b64encode(s)) : s \in RandomSecrets}
    \cup {DecodeAscii(s) : s \in RandomSecrets}

\* a capsule record has the five fields and none of them is a symmetric key
FiveFieldsNoKey(c) ==
  /\ DOMAIN c = CapsuleFields
  /\ \A f \in CapsuleFields : c[f].v \notin SymmetricKeys

\* C12: The per-message symmetric key is never stored or returned.  In every
\* reachable state each stored capsule has exactly the five fields timestamp,
\* unlock_date, ciphertext, kem_ct, signature, none of which is a symmetric
\* key; the key slot holds the four asymmetric keys only; and the capsule and
\* the text that create returned to its caller hold no symmetric key.
C12_SymmetricKeyNotKept ==
  /\ \A t \in DOMAIN capsuleFiles : FiveFieldsNoKey(capsuleFiles[t].c)
  /\ DOMAIN keysFile.keys = {"kem_public", "kem_secret", "sig_public", "sig_secret"}
  /\ \A f \in DOMAIN keysFile.keys : keysFile.keys[f] \notin SymmetricKeys
  /\ \A j \in 1..Len(sealed) : FiveFieldsNoKey(sealed[j].capsule)
  /\ result.op = "create" => result.text \notin SymmetricKeys

\* create answered with success, and the capsule it returned is stored next
\* to a complete key bundle
C12_Witness ==
  /\ result.op = "create" /\ result.kind = "ok" /\ result.code = 200
  /\ Len(sealed) >= 1
  /\ \E t \in DOMAIN capsuleFiles : capsuleFiles[t].c = sealed[Len(sealed)].capsule
  /\ keysFile.complete

\* C13: Input validation on create.  A create request whose message is empty
\* is rejected with the empty-message error, one whose unlock_date does not
\* parse as a calendar date (an absent or non-text value included) with the
\* invalid-date error, and the capsule store and the key slot stay as they were.
C13_CreateValidation ==
  [][\A message \in Messages, unlock_date \in UnlockDates, shared_secret \in RandomSecrets :
       (result'.op = "create" /\ ApiCreateCapsule(message, unlock_date, shared_secret))
       => /\ Falsy(message)
               => /\ result'.kind = "empty_message" /\ result'.code = 400
                  /\ capsuleFiles' = capsuleFiles /\ keysFile' = keysFile
          /\ (~Falsy(message) /\ ~fromisoformat(unlock_date).ok)
               => /\ result'.kind = "invalid_date" /\ result'.code = 400
                  /\ capsuleFiles' = capsuleFiles /\ keysFile' = keysFile]_vars

\* a stored capsule that loads and whose unlock_date is not a calendar date
NoDate(t) == capsuleFiles[t].valid /\ ~fromisoformat(capsuleFiles[t].c.unlock_date).ok

\* C14: Time lock fails closed.  For every stored unlock_date that is not a
\* well-formed calendar date, be it a malformed text or a value that is not a
\* text, is_unlocked returns false: decrypt reports the capsule as locked and
\* calls neither decapsulate_key nor decrypt_message, and the listing shows it
\* as locked.
C14_TimeLockFailsClosed ==
  [][/\ \A i \in Indexes :
          (/\ NoDate(list_capsules(capsuleFiles)[i + 1])
           /\ load_keys(keysFile).some
           /\ DecryptStep(i))
          => /\ is_unlocked(StoredAt(i).unlock_date, Today) = Ok(FALSE)
             /\ result'.kind = "locked" /\ result'.code = 400
             /\ Range(result'.calls) \cap {"decapsulate_key", "decrypt_message"} = {}
     /\ (result'.op = "list" /\ ApiListCapsules)
          => \A t \in DOMAIN capsuleFiles :
               NoDate(t)
               => /\ result'.kind = "ok"
                  /\ \E k \in 1..Len(result'.capsules) :
                       /\ result'.capsules[k].timestamp = t
                       /\ result'.capsules[k].status = "locked"
    ]_vars

\* the four signed values of a capsule
SignedFields == {"timestamp", "unlock_date", "ciphertext", "kem_ct"}

\* the text cut at every delimiter
RECURSIVE SplitBar(_)
SplitBar(text) ==
  IF \A i \in 1..Len(text) : text[i] # "|" THEN <<text>>
  ELSE LET n == CHOOSE i \in 1..Len(text) :
                  text[i] = "|" /\ \A k \in 1..(i - 1) : text[k] # "|"
       IN <<SubSeq(text, 1, n - 1)>> \o SplitBar(SubSeq(text, n + 1, Len(text)))

\* C15: Canonical metadata is unambiguous.  For every capsule that create
\* produced, none of timestamp, unlock_date, ciphertext, kem_ct contains the
\* delimiter '|'; the signature is over exactly
\* timestamp|unlock_date|ciphertext|kem_ct, which cut at the delimiters gives
\* the four values back; and capsules that differ in one of the four values
\* have different signed strings.
C15_CanonicalMetadata ==
  /\ \A j \in 1..Len(sealed) :
       LET c == sealed[j].capsule
       IN /\ \A f \in SignedFields : c[f].t = "str" /\ "|" \notin Range(c[f].v)
          /\ verify_signature(SignedString(c), c.signature, sealed[j].keys.sig_public) = Ok(TRUE)
          /\ SplitBar(SignedString(c))
               = <<c.timestamp.v, c.unlock_date.v, c.ciphertext.v, c.kem_ct.v>>
  /\ \A j, k \in 1..Len(sealed) :
       (\E f \in SignedFields : sealed[j].capsule[f] # sealed[k].capsule[f])
       => SignedString(sealed[j].capsule) # SignedString(sealed[k].capsule)

\* two capsules with different signed values were created, one of them from
\* a message that contains the delimiter
C15_Witness ==
  \E j, k \in 1..Len(sealed) :
    /\ "|" \in Range(sealed[j].message.v)
    /\ \E f \in SignedFields : sealed[j].capsule[f] # sealed[k].capsule[f]

\* C16: Symmetric key generation is usable.  Every key that generate_aes_key
\* returns is accepted by encrypt_message and decrypt_message, and decrypting
\* what was encrypted under it gives the message back.
C16_AesKeyUsable ==
  [][\A raw \in AesRandoms, message \in AesMessages :
       (result'.op = "aes_round_trip" /\ AesRoundTrip(raw, message))
       => (result'.kind = "ok" /\ result'.text = message.v)]_vars

\* C17: Index correspondence.  While the store stays as it is, the entry at
\* position i of the list that the listing returns has the timestamp of the
\* capsule that decrypt and verify pick for capsule_index i, also when some
\* stored capsule record cannot be loaded.
C17_IndexCorrespondence ==
  [][(result'.op = "list" /\ ApiListCapsules /\ result'.kind = "ok")
       => \A i \in 0..(Len(result'.capsules) - 1) :
            /\ IndexInRange(capsuleFiles', JInt(i))
            /\ result'.capsules[i + 1].timestamp = list_capsules(capsuleFiles')[i + 1]]_vars

====
